---- MODULE Spec2Model ----
(***************************************************************************)
(* Model of app.py: the /api/chat relay between a web chat client and the  *)
(* Gemini provider.  One request is one atomic step (chat_handler); the    *)
(* server keeps no state between requests, the client keeps the            *)
(* `updated_history` of the last success and resends it.                   *)
(*                                                                         *)
(* JSON values sent by the client are tagged records ([json |-> ...]) so   *)
(* that Python's dynamic type errors can be modelled; Python dicts are     *)
(* functions whose DOMAIN is the set of keys that are present.  Provider   *)
(* (protobuf) parts are records with every field, unset fields holding the *)
(* protobuf default, which Python treats as falsy.                         *)
(*                                                                         *)
(* The timezone lookup and the system prompt (lines 176-212) are left out: *)
(* their exceptions are swallowed and nothing the handler returns or sends *)
(* as history or message depends on them.                                  *)
(***************************************************************************)
EXTENDS Integers, Sequences, FiniteSets, TLC

VARIABLES
    raw_history,      \* data.get('history', []) of the last request
    sanitized,        \* value returned by sanitize_history_for_gemini
    clean_history,    \* history handed to model.start_chat (after the pop)
    chat_started,     \* model.start_chat was called
    msg_type,         \* "none" | "user_text" | "last_item_parts"
    message_payload,  \* argument of chat.send_message
    http_status,      \* 0 before the first request, else 200 | 400 | 500
    body,             \* JSON body of the response
    chat_history,     \* chat.history of the provider after the exchange
    last_response,    \* what chat.send_message returned or raised, if it was called
    normalized,       \* sanitize_history_for_gemini returned (raised nothing)
    prev_history,     \* chat.history of the session's previous request
    round             \* requests of the current client session, 0 outside one

vars == <<raw_history, sanitized, clean_history, chat_started, msg_type,
          message_payload, http_status, body, chat_history, last_response,
          normalized, prev_history, round>>

-----------------------------------------------------------------------------
(* Bounds *)

\* longest client history of an arbitrary request
MaxTurns == 2
\* follow-up requests of one client session
MaxRounds == 2

-----------------------------------------------------------------------------
(* JSON values of the request *)

JNull == [json |-> "null"]
JNumber == [json |-> "number"]
JString == [json |-> "string"]
JArray(items) == [json |-> "array", items |-> items]
JObject(d) == [json |-> "object", d |-> d]

EmptyDict == [k \in {} |-> ""]

\* `key in part` of Python.  On a number it raises (see PartRaises); on the
\* modelled string entry, which contains none of the key names, it is False.
Has(entry, key) == entry.json = "object" /\ key \in DOMAIN entry.d

\* function-call and function-response payloads a client may send
CallGmail == [name |-> "tool_search_gmail", args |-> [query |-> "invoice"]]
CallCalendar == [name |-> "tool_create_calendar_event", args |-> [summary |-> "sync"]]
RespGmail == [name |-> "tool_search_gmail", response |-> [result |-> "found"]]
RespCalendar == [name |-> "tool_create_calendar_event", response |-> [result |-> "created"]]

-----------------------------------------------------------------------------
(* sanitize_history_for_gemini *)

\* item.get('parts', [])
ItemParts(item) == IF "parts" \in DOMAIN item.d THEN item.d.parts ELSE <<>>

\* `'text' in part` raises TypeError when part is a number or null
PartRaises(part) == part.json \in {"number", "null"}

\* the exception one turn entry raises inside the loop, "none" when it raises none:
\* item.get on an entry that is not a dict is an AttributeError
ItemRaises(item) ==
    IF item.json # "object" THEN "AttributeError"
    ELSE IF \E i \in 1..Len(ItemParts(item)) : PartRaises(ItemParts(item)[i])
         THEN "TypeError"
         ELSE "none"

\* the exception sanitize_history_for_gemini raises on this list: that of the
\* first entry, in iteration order, that raises
SanitizeRaises(history) ==
    LET bad == {i \in 1..Len(history) : ItemRaises(history[i]) # "none"}
    IN IF bad = {} THEN "none"
       ELSE ItemRaises(history[CHOOSE i \in bad : \A j \in bad : i <= j])

\* NewPartKeys with a fault: the camelCase keys are not recognized
NewPartKeysSnakeOnly(part) ==
    {k \in {"text"} : Has(part, "text")}
    \cup {k \in {"function_call"} : Has(part, "function_call")}
    \cup {k \in {"function_response"} : Has(part, "function_response")}

\* keys of new_part after the three independent if-statements
NewPartKeys(part) ==
    {k \in {"text"} : Has(part, "text")}
    \cup {k \in {"function_call"} :
            Has(part, "functionCall") \/ Has(part, "function_call")}
    \cup {k \in {"function_response"} :
            Has(part, "functionResponse") \/ Has(part, "function_response")}

\* new_part: the camelCase key wins over the snake_case key of the same kind
NewPart(part) ==
    [k \in NewPartKeys(part) |->
        CASE k = "text" -> part.d.text
          [] k = "function_call" ->
                IF Has(part, "functionCall") THEN part.d.functionCall
                ELSE part.d.function_call
          [] k = "function_response" ->
                IF Has(part, "functionResponse") THEN part.d.functionResponse
                ELSE part.d.function_response]

\* new_parts: `if new_part: new_parts.append(new_part)`
NewParts(item) ==
    LET parts == ItemParts(item)
        all == [i \in 1..Len(parts) |-> NewPart(parts[i])]
    IN SelectSeq(all, LAMBDA np : DOMAIN np # {})

\* item.get('role', 'user')
ItemRole(item) == IF "role" \in DOMAIN item.d THEN item.d.role ELSE "user"

\* the value sanitize_history_for_gemini returns when it raises nothing
sanitize_history_for_gemini(history) ==
    LET all == [i \in 1..Len(history) |->
                   [role |-> ItemRole(history[i]), parts |-> NewParts(history[i])]]
    IN SelectSeq(all, LAMBDA turn : Len(turn.parts) > 0)

-----------------------------------------------------------------------------
(* Provider (protobuf) values *)

\* protobuf defaults: an unset message field reads as an empty message (falsy)
NoCall == [name |-> "", ok |-> TRUE, items |-> <<>>]
NoResp == [name |-> "", items |-> <<>>]

\* the order in which a map container yields its keys
KeyOrder == <<"query", "summary", "result">>

\* a dict as the provider's map container: its (key, value) pairs
DictItems(d) ==
    LET present == SelectSeq(KeyOrder, LAMBDA k : k \in DOMAIN d)
    IN [i \in 1..Len(present) |-> <<present[i], d[present[i]]>>]

\* dict(container): the mapping built pair by pair
ItemsDict(items) ==
    [k \in {items[i][1] : i \in 1..Len(items)} |->
        LET last == CHOOSE i \in 1..Len(items) :
                       /\ items[i][1] = k
                       /\ \A j \in 1..Len(items) : items[j][1] = k => j <= i
        IN items[last][2]]

ProtoText(s) == [text |-> s, function_call |-> NoCall, function_response |-> NoResp]
ProtoCall(c) ==
    [text |-> "",
     function_call |-> [name |-> c.name, ok |-> TRUE, items |-> DictItems(c.args)],
     function_response |-> NoResp]
ProtoResp(r) ==
    [text |-> "", function_call |-> NoCall,
     function_response |-> [name |-> r.name, items |-> DictItems(r.response)]]

Kinds == <<"text", "function_call", "function_response">>

\* The SDK's conversion of one sanitized part into a protobuf Part.  The three
\* payloads share a oneof, so a part with several keys keeps one of them; which
\* one is not fixed by app.py: `oneof` is the kind preferred when present.
ToProto(part, oneof) ==
    LET present == SelectSeq(Kinds, LAMBDA k : k \in DOMAIN part)
        kind == IF oneof \in DOMAIN part THEN oneof ELSE present[1]
    IN CASE kind = "text" -> ProtoText(part.text)
         [] kind = "function_call" -> ProtoCall(part.function_call)
         [] kind = "function_response" -> ProtoResp(part.function_response)

ToContent(turn, oneof) ==
    [role |-> turn.role,
     parts |-> [i \in 1..Len(turn.parts) |-> ToProto(turn.parts[i], oneof)]]

ToContents(history, oneof) ==
    [i \in 1..Len(history) |-> ToContent(history[i], oneof)]

-----------------------------------------------------------------------------
(* Response decoding and history serialization *)

\* a protobuf message is truthy when one of its fields is set
CallSet(c) == c # NoCall

part_to_dict(part) ==
    IF part.text # "" THEN [text |-> part.text]
    ELSE IF CallSet(part.function_call)
         THEN IF part.function_call.ok
              THEN [functionCall |->
                      [name |-> part.function_call.name,
                       args |-> ItemsDict(part.function_call.items)]]
              ELSE [error |-> "part_to_dict_failed"]   \* except Exception
         ELSE EmptyDict                                \* return {}

history_to_dict(history) ==
    [i \in 1..Len(history) |->
        [role |-> history[i].role,
         parts |-> [j \in 1..Len(history[i].parts) |->
                       part_to_dict(history[i].parts[j])]]]

\* extract_user_text_from_item with a fault: reads the last part, not the first
extract_user_text_from_last_part(item) ==
    IF Len(item.parts) = 0 THEN ""
    ELSE IF "text" \in DOMAIN item.parts[Len(item.parts)]
         THEN item.parts[Len(item.parts)].text ELSE ""

extract_user_text_from_item(item) ==
    IF Len(item.parts) = 0 THEN ""
    ELSE IF "text" \in DOMAIN item.parts[1] THEN item.parts[1].text ELSE ""

\* NoCandidates with a fault: `candidates is None`, an empty list passes
NoCandidatesNoneOnly(response) == response.candidates \in {"absent", "null"}

\* `not getattr(response, 'candidates', None)`: absent, None or an empty list
NoCandidates(response) == response.candidates # "list"

safe_first_part_from_response(response) ==
    IF NoCandidates(response) THEN [text |-> ""]
    ELSE IF ~response.has_content THEN [text |-> ""]
    ELSE IF Len(response.parts) = 0 THEN [text |-> response.content_text]
    ELSE part_to_dict(response.parts[1])

-----------------------------------------------------------------------------
(* chat_handler *)

\* raw_history = data.get('history', [])
RawHistory(data) == IF "history" \in DOMAIN data THEN data.history ELSE JArray(<<>>)

\* len(raw_history) in the first log_event raises TypeError unless it is a list
LenRaises(raw) == raw.json # "array"

\* IsEmptyHistory with a fault: `if clean_history is None`, never true of a list
IsNoneHistory(history) == Len(history) < 0

\* `if not clean_history`
IsEmptyHistory(history) == Len(history) = 0

\* clean_history.pop(): the last item, and the list left behind
LastItem(history) == history[Len(history)]
AfterPop(history) == SubSeq(history, 1, Len(history) - 1)

\* the if / elif / else that decides what to send
MsgType(user_text, last_message_item) ==
    IF user_text # "" THEN "user_text"
    ELSE IF Len(last_message_item.parts) > 0 THEN "last_item_parts"
    ELSE "none"

PyStr(s) == [py |-> "str", v |-> s]
PyList(l) == [py |-> "list", v |-> l]
PyNone == [py |-> "none"]

\* MessagePayload with a fault: only the first part of the turn is sent
MessagePayloadFirstPart(user_text, last_message_item) ==
    CASE MsgType(user_text, last_message_item) = "user_text" -> PyStr(user_text)
      [] MsgType(user_text, last_message_item) = "last_item_parts" ->
            PyList(<<last_message_item.parts[1]>>)
      [] OTHER -> PyNone

MessagePayload(user_text, last_message_item) ==
    CASE MsgType(user_text, last_message_item) = "user_text" -> PyStr(user_text)
      [] MsgType(user_text, last_message_item) = "last_item_parts" ->
            PyList(last_message_item.parts)
      [] OTHER -> PyNone

ErrorBody(message) == [error |-> message, request_id |-> "uuid"]

\* the content the provider records for the message that was sent
UserContent(payload, oneof) ==
    [role |-> "user",
     parts |-> IF payload.py = "str" THEN <<ProtoText(payload.v)>>
               ELSE [i \in 1..Len(payload.v) |-> ToProto(payload.v[i], oneof)]]

\* the content of the first candidate, as the provider appends it to chat.history
ModelContent(response) ==
    [role |-> "model", parts |-> IF response.has_content THEN response.parts ELSE <<>>]

\* chat_handler up to the choice of the message: normalization, the pop and
\* the if / elif / else.  `fail` is the HTTP status of an early return or of an
\* exception caught by the outer handler, 0 when the handler goes on to send.
Selection(data) ==
    LET raw == RawHistory(data)
        stop(status, message, clean, full) ==
            [raw_history |-> raw, sanitized |-> full, clean_history |-> <<>>,
             normalized |-> clean, chat_started |-> FALSE, msg_type |-> "none",
             message_payload |-> PyNone, fail |-> status, error |-> message]
    IN
    IF LenRaises(raw) THEN stop(500, "TypeError", FALSE, <<>>)
    ELSE IF SanitizeRaises(raw.items) # "none"
    THEN stop(500, SanitizeRaises(raw.items), FALSE, <<>>)
    ELSE
    LET full == sanitize_history_for_gemini(raw.items) IN
    IF IsEmptyHistory(full) THEN stop(400, "No chat history received.", TRUE, full)
    ELSE IF Len(full) = 0     \* list.pop() on an empty list raises
    THEN stop(500, "IndexError", TRUE, full)
    ELSE
    LET last_message_item == LastItem(full)
        user_text == extract_user_text_from_item(last_message_item)
        type == MsgType(user_text, last_message_item)
    IN [raw_history |-> raw, sanitized |-> full, clean_history |-> AfterPop(full),
        normalized |-> TRUE, chat_started |-> TRUE, msg_type |-> type,
        message_payload |-> MessagePayload(user_text, last_message_item),
        fail |-> IF type = "none" THEN 400 ELSE 0,
        error |-> IF type = "none"
                  THEN "No user text or function response available." ELSE ""]

\* chat_handler from chat.send_message on: the HTTP status, the body and the
\* provider's chat.history when the provider answers `response`
Exchange(sel, response, oneof) ==
    IF sel.fail # 0
    THEN [http_status |-> sel.fail, body |-> ErrorBody(sel.error), chat_history |-> <<>>]
    ELSE IF response.fault       \* chat.send_message raises
    THEN [http_status |-> 500, body |-> ErrorBody("provider fault"),
          chat_history |-> <<>>]
    ELSE IF NoCandidates(response)
    THEN [http_status |-> 400,
          body |-> ErrorBody("The AI model blocked the response. Try rephrasing."),
          chat_history |-> <<>>]
    ELSE
    LET history == ToContents(sel.clean_history, oneof)
                     \o <<UserContent(sel.message_payload, oneof),
                          ModelContent(response)>>
    IN [http_status |-> 200,
        body |-> [response_part |-> safe_first_part_from_response(response),
                  updated_history |-> history_to_dict(history),
                  request_id |-> "uuid"],
        chat_history |-> history]

-----------------------------------------------------------------------------
(* Inputs: what clients send and what the provider answers *)

TextHi == JObject([text |-> "hi"])
TextEmpty == JObject([text |-> ""])
CallCamel == JObject([functionCall |-> CallGmail])
CallSnake == JObject([function_call |-> CallCalendar])
RespCamel == JObject([functionResponse |-> RespGmail])
RespSnake == JObject([function_response |-> RespCalendar])
TextAndCall == JObject([text |-> "hi", function_call |-> CallCalendar])
CallAndResp == JObject([functionCall |-> CallGmail, functionResponse |-> RespGmail])
Unrecognized == JObject([inlineData |-> "x"])

PartEntries ==
    {TextHi, TextEmpty, CallCamel, CallSnake, RespCamel, RespSnake,
     TextAndCall, CallAndResp, Unrecognized, JNumber, JString}

PartLists ==
    {<<>>} \cup {<<p>> : p \in PartEntries}
    \cup {<<RespCamel, RespSnake>>, <<TextHi, CallCamel>>, <<TextEmpty, RespSnake>>}

TurnEntries ==
    {JObject([role |-> "user", parts |-> pl]) : pl \in PartLists}
    \cup {JObject([role |-> "model", parts |-> <<CallCamel>>]),
          JObject([parts |-> <<TextHi>>]),
          JObject([role |-> "user", extra |-> "x"]),
          JNumber}

Histories == UNION {[1..n -> TurnEntries] : n \in 0..MaxTurns}

\* request bodies: no `history` key, a null history, or a list of entries
Requests ==
    {EmptyDict, [history |-> JNull]} \cup {[history |-> JArray(h)] : h \in Histories}

\* parts a model reply may start with
ReplyParts ==
    {ProtoText("ok"), ProtoText(""), ProtoCall(CallGmail),
     [text |-> "", function_response |-> NoResp,
      function_call |-> [name |-> "tool_search_gmail", ok |-> FALSE, items |-> <<>>]]}

Reply(fault, candidates, has_content, parts, content_text) ==
    [fault |-> fault, candidates |-> candidates, has_content |-> has_content,
     parts |-> parts, content_text |-> content_text]

Responses ==
    {Reply(TRUE, "absent", FALSE, <<>>, "")}
    \cup {Reply(FALSE, c, FALSE, <<>>, "") : c \in {"absent", "null", "empty"}}
    \cup {Reply(FALSE, "list", FALSE, <<>>, "")}
    \cup {Reply(FALSE, "list", TRUE, <<>>, t) : t \in {"", "top"}}
    \cup {Reply(FALSE, "list", TRUE, <<p>>, "") : p \in ReplyParts}

\* chat.send_message was not called
NoResponse == Reply(FALSE, "unsent", FALSE, <<>>, "")

\* the turn a client appends to the stored history for its next request
NewTurns ==
    {JObject([role |-> "user", parts |-> <<TextHi>>]),
     JObject([role |-> "user", parts |-> <<RespCamel>>])}

\* jsonify(updated_history) as the client reads it back and sends it again
ToJson(history) ==
    [i \in 1..Len(history) |->
        JObject([role |-> history[i].role,
                 parts |-> [j \in 1..Len(history[i].parts) |->
                               JObject(history[i].parts[j])]])]

\* the oneof choices that matter for a normalized transcript
Oneofs(history) ==
    IF \E i \in 1..Len(history) : \E j \in 1..Len(history[i].parts) :
          Cardinality(DOMAIN history[i].parts[j]) > 1
    THEN {"text", "function_call", "function_response"}
    ELSE {"text"}

-----------------------------------------------------------------------------
(* The state machine *)

Init ==
    /\ raw_history = JArray(<<>>)
    /\ sanitized = <<>>
    /\ clean_history = <<>>
    /\ chat_started = FALSE
    /\ msg_type = "none"
    /\ message_payload = PyNone
    /\ http_status = 0
    /\ body = EmptyDict
    /\ chat_history = <<>>
    /\ last_response = NoResponse
    /\ normalized = FALSE
    /\ prev_history = <<>>
    /\ round = 0

\* chat_handler serves one POST /api/chat
Serve(sel, response, oneof) ==
    LET out == Exchange(sel, response, oneof)
    IN /\ raw_history' = sel.raw_history
       /\ sanitized' = sel.sanitized
       /\ clean_history' = sel.clean_history
       /\ chat_started' = sel.chat_started
       /\ msg_type' = sel.msg_type
       /\ message_payload' = sel.message_payload
       /\ normalized' = sel.normalized
       /\ http_status' = out.http_status
       /\ body' = out.body
       /\ chat_history' = out.chat_history
       /\ last_response' = IF sel.fail # 0 THEN NoResponse ELSE response

\* a client with no conversation in progress sends any request body
Request ==
    /\ http_status = 0
    /\ \E data \in Requests :
        LET sel == Selection(data)
        IN \E response \in Responses : \E oneof \in Oneofs(sel.sanitized) :
              Serve(sel, response, oneof)
    /\ prev_history' = <<>>
    /\ round' = 0

\* a client opens a conversation with one turn
NewSession ==
    /\ http_status = 0
    /\ \E turn \in NewTurns : \E response \in Responses :
          Serve(Selection([history |-> JArray(<<turn>>)]), response, "text")
    /\ prev_history' = <<>>
    /\ round' = 1

\* the client of a conversation resends the stored updated_history verbatim
\* with one new final turn
Resend ==
    /\ round >= 1
    /\ round <= MaxRounds
    /\ http_status = 200
    /\ \E turn \in NewTurns : \E response \in Responses :
          Serve(Selection([history |->
                             JArray(ToJson(body.updated_history) \o <<turn>>)]),
                response, "text")
    /\ prev_history' = chat_history
    /\ round' = round + 1

\* the client has read the response and drops the conversation; the server
\* holds nothing of it
Forget ==
    /\ http_status # 0
    /\ raw_history' = JArray(<<>>)
    /\ sanitized' = <<>>
    /\ clean_history' = <<>>
    /\ chat_started' = FALSE
    /\ msg_type' = "none"
    /\ message_payload' = PyNone
    /\ http_status' = 0
    /\ body' = EmptyDict
    /\ chat_history' = <<>>
    /\ last_response' = NoResponse
    /\ normalized' = FALSE
    /\ prev_history' = <<>>
    /\ round' = 0

Next == Request \/ NewSession \/ Resend \/ Forget

Spec == Init /\ [][Next]_vars

-----------------------------------------------------------------------------
(* Properties *)

\* the final turn of the normalized transcript and its first part
HasFinalTurn == normalized /\ Len(sanitized) >= 1
FinalTurn == sanitized[Len(sanitized)]
FirstPart == FinalTurn.parts[1]
AllButFinal == [i \in 1..(Len(sanitized) - 1) |-> sanitized[i]]

InputShapeErrors ==
    {"No chat history received.", "No user text or function response available."}
ReturnsInputShapeError == "error" \in DOMAIN body /\ body.error \in InputShapeErrors

\* C1: every normalized part that keeps a text payload keeps nothing else: a raw
\* part with `text` and a function-call or function-response key becomes a Text
\* part only.
C1_TextPartOnly ==
    normalized =>
        \A i \in 1..Len(sanitized) : \A j \in 1..Len(sanitized[i].parts) :
            "text" \in DOMAIN sanitized[i].parts[j]
                => DOMAIN sanitized[i].parts[j] = {"text"}

IsFunctionResponse(part) == DOMAIN part = {"function_response"}
IsFunctionCall(part) == "function_call" \in DOMAIN part /\ "text" \notin DOMAIN part

\* C3: whenever the final normalized turn starts with a FunctionResponse part,
\* also when it is the only turn, the message sent is the whole ordered part
\* list of that turn (not a string) and the other turns are the prior context.
C3_ToolResultSendsParts ==
    (HasFinalTurn /\ IsFunctionResponse(FirstPart)) =>
        /\ msg_type = "last_item_parts"
        /\ message_payload = [py |-> "list", v |-> FinalTurn.parts]
        /\ chat_started /\ clean_history = AllButFinal

C3_Witness ==
    /\ HasFinalTurn /\ Len(sanitized) = 1
    /\ IsFunctionResponse(FirstPart)
    /\ Len(FinalTurn.parts) = 2
    /\ message_payload.py = "list" /\ Len(message_payload.v) = 2
    /\ clean_history = <<>>
    /\ http_status = 200

\* C4: whenever the final normalized turn starts with a part that is neither
\* Text nor FunctionResponse, the request ends in HTTP 400 and no message is
\* sent to the provider.
C4_UnrecognizedTurnRejected ==
    (HasFinalTurn /\ IsFunctionCall(FirstPart)) =>
        /\ http_status = 400
        /\ msg_type = "none" /\ message_payload = [py |-> "none"]

\* C5: whenever normalization leaves zero turns, the reply is HTTP 400 with the
\* EmptyHistory message and the request id, the chat is not started and no
\* message is sent.
C5_EmptyHistoryRejected ==
    (normalized /\ Len(sanitized) = 0) =>
        /\ http_status = 400
        /\ body = [error |-> "No chat history received.", request_id |-> "uuid"]
        /\ ~chat_started
        /\ msg_type = "none" /\ message_payload = [py |-> "none"]

C5_Witness ==
    /\ normalized /\ Len(sanitized) = 0
    /\ raw_history.json = "array" /\ Len(raw_history.items) = 2
    /\ http_status = 400

\* C6: no request ends in HTTP 500 because of the shape of its history: the
\* only server faults are provider faults.
C6_NoServerFaultOnInputShape ==
    http_status = 500 => (normalized /\ body.error = "provider fault")

ResponsePartKeys == {"text", "functionCall", "error"}

\* C7: the response_part of every success response has exactly one key, which
\* is text, functionCall or error; when the first candidate has no content or
\* no parts it is the attached top-level text, else the empty text.
C7_ResponsePartHasOneKind ==
    http_status = 200 =>
        /\ DOMAIN body.response_part \subseteq ResponsePartKeys
        /\ Cardinality(DOMAIN body.response_part) = 1
        /\ (~last_response.has_content => body.response_part = [text |-> ""])
        /\ (last_response.has_content /\ Len(last_response.parts) = 0
              => body.response_part = [text |-> last_response.content_text])

\* C8: whenever the provider's reply has no candidates (absent, null or an empty
\* list), the reply is HTTP 400 with the "blocked" message and the request id,
\* and carries neither response_part nor updated_history.
C8_BlockedIsClientError ==
    (msg_type # "none" /\ ~last_response.fault
       /\ last_response.candidates \in {"absent", "null", "empty"}) =>
        /\ http_status = 400
        /\ body = [error |-> "The AI model blocked the response. Try rephrasing.",
                   request_id |-> "uuid"]

C8_Witness ==
    /\ msg_type = "user_text" /\ ~last_response.fault
    /\ last_response.candidates = "empty"
    /\ http_status = 400
    /\ DOMAIN body = {"error", "request_id"}

\* a provider part that is a function call with a readable argument container
IsProtoCall(part) ==
    part.text = "" /\ part.function_call.name # "" /\ part.function_call.ok

\* history_to_dict of one provider turn, sent back by the client and normalized
RoundTrip(content) ==
    sanitize_history_for_gemini(ToJson(history_to_dict(<<content>>)))

PairsOf(d) == {<<k, d[k]>> : k \in DOMAIN d}

\* C9: every function-call part of the provider's history, serialized with
\* history_to_dict and normalized again, is a part of the resulting turn that
\* holds a function call only, with the same name and the same arguments.
C9_FunctionCallRoundTrip ==
    \A i \in 1..Len(chat_history) : \A j \in 1..Len(chat_history[i].parts) :
        LET part == chat_history[i].parts[j]
            back == RoundTrip(chat_history[i])
        IN IsProtoCall(part) =>
             /\ Len(back) = 1
             /\ \E k \in 1..Len(back[1].parts) :
                  /\ DOMAIN back[1].parts[k] = {"function_call"}
                  /\ back[1].parts[k].function_call.name = part.function_call.name
                  /\ PairsOf(back[1].parts[k].function_call.args)
                       = {part.function_call.items[n] :
                            n \in 1..Len(part.function_call.items)}

C9_Witness ==
    /\ http_status = 200
    /\ \E i \in 1..Len(chat_history) :
         /\ chat_history[i].role = "model"
         /\ Len(chat_history[i].parts) = 1
         /\ IsProtoCall(chat_history[i].parts[1])
         /\ chat_history[i].parts[1].function_call.name = "tool_search_gmail"
         /\ chat_history[i].parts[1].function_call.items = << <<"query", "invoice">> >>

\* the payload kind of a provider part, "none" when no payload is set
ProtoKind(part) ==
    IF part.text # "" THEN "text"
    ELSE IF part.function_call # NoCall THEN "function_call"
    ELSE IF part.function_response # NoResp THEN "function_response"
    ELSE "none"

DictKind(part) ==
    IF "text" \in DOMAIN part THEN "text"
    ELSE IF "function_call" \in DOMAIN part THEN "function_call"
    ELSE "function_response"

ProtoShape(history) ==
    [i \in 1..Len(history) |->
        [role |-> history[i].role,
         kinds |-> [j \in 1..Len(history[i].parts) |-> ProtoKind(history[i].parts[j])]]]

DictShape(history) ==
    [i \in 1..Len(history) |->
        [role |-> history[i].role,
         kinds |-> [j \in 1..Len(history[i].parts) |-> DictKind(history[i].parts[j])]]]

\* every turn has a part, every part a payload, every call readable arguments
WellFormed(history) ==
    \A i \in 1..Len(history) :
        /\ Len(history[i].parts) >= 1
        /\ \A j \in 1..Len(history[i].parts) :
              /\ ProtoKind(history[i].parts[j]) # "none"
              /\ history[i].parts[j].function_call.ok

\* C10: when a client resends the stored updated_history with one new final
\* turn and both requests succeed, the prior context seeded into the provider
\* has the turns of the provider's history after the previous request: as
\* many, in the same order, with the same roles and part kinds.
C10_ResendKeepsEveryTurn ==
    (round >= 2 /\ http_status = 200 /\ WellFormed(prev_history)) =>
        DictShape(clean_history) = ProtoShape(prev_history)

====
